---------------------------- MODULE Spec2Model ----------------------------
(* Model of compile_shaders.py: the shader build driver.                  *)
(* Strings are TLA+ strings; Len, SubSeq and \o act on them as on         *)
(* Python str.  The external compiler and the filesystem are the          *)
(* environment: an invocation either cannot be started, or is started     *)
(* and later returns an exit status (or never returns).                   *)
EXTENDS Integers, Sequences, FiniteSets, TLC

(* ---------------------------------------------------------------- *)
(* Bounds                                                           *)
(* ---------------------------------------------------------------- *)

\* Longest argument list (sys.argv[1:]) explored.
MaxArgs == 2

\* The path strings the arguments are drawn from: one, two and two
\* overlapping occurrences of 'shaders', none, and a path that is the
\* output path of another one.
Paths == { "shaders/a.vert", "shaders/shaders/b", "shadershaders",
           "a.frag", "a.frag.spv" }

\* Non-zero exit statuses a started compiler returns.
NonZeroCodes == {1, 2}

(* ---------------------------------------------------------------- *)
(* State                                                            *)
(* ---------------------------------------------------------------- *)

VARIABLES
    argv,       \* sys.argv[1:], the path arguments
    fs,         \* the regular files that exist on disk
    pc,         \* position of the script
    shader,     \* index in argv of the loop variable `shader`
    stdout,     \* the lines printed so far
    checks,     \* os.path.isfile calls made so far: [pos, path, result]
    spawns,     \* subprocess.run calls made so far: [pos, command, outcome]
    exitCode    \* exit status of the process, "none" while it runs

vars == <<argv, fs, pc, shader, stdout, checks, spawns, exitCode>>

(* ---------------------------------------------------------------- *)
(* str.replace                                                      *)
(* ---------------------------------------------------------------- *)

\* str.find: lowest index (1-based) at which sub occurs in s, 0 if none.
find(s, sub) ==
    LET hits == { k \in 1..(Len(s) - Len(sub) + 1) :
                      SubSeq(s, k, k + Len(sub) - 1) = sub }
    IN  IF hits = {} THEN 0
        ELSE CHOOSE k \in hits : \A j \in hits : k <= j

\* A replace that stops after the first occurrence (str.replace(old, new, 1)).
replace_first(s, old, new) ==
    LET k == find(s, old)
    IN  IF k = 0 THEN s
        ELSE SubSeq(s, 1, k - 1) \o new \o SubSeq(s, k + Len(old), Len(s))

RECURSIVE replace(_, _, _)
\* str.replace(old, new) with no count: scanning from the left, every
\* non-overlapping occurrence of old is replaced by new.
replace(s, old, new) ==
    LET k == find(s, old)
    IN  IF k = 0 THEN s
        ELSE SubSeq(s, 1, k - 1) \o new
             \o replace(SubSeq(s, k + Len(old), Len(s)), old, new)

\* The suffix is dropped when nothing was replaced.
output_path_suffix_only_if_replaced(shader_path) ==
    IF find(shader_path, "shaders") = 0
    THEN shader_path
    ELSE replace(shader_path, "shaders", "bin") \o ".spv"

\* compile_shader: output_path
output_path(shader_path) ==
    replace(shader_path, "shaders", "bin") \o ".spv"

\* compile_shader: command
command(shader_path) ==
    <<"glslc", shader_path, "-o", output_path(shader_path)>>

(* ---------------------------------------------------------------- *)
(* Printed lines                                                    *)
(* ---------------------------------------------------------------- *)

UsageLine == "Usage: compile_shaders.py <shader1> <shader2> ..."

CompiledLine(shader_path) ==
    "Compiled " \o shader_path \o " to " \o output_path(shader_path)

\* str(e) of the CalledProcessError raised by subprocess.run(check=True).
CalledProcessErrorStr(cmd, rc) ==
    "Command '['" \o cmd[1] \o "', '" \o cmd[2] \o "', '" \o cmd[3]
        \o "', '" \o cmd[4] \o "']' returned non-zero exit status "
        \o ToString(rc) \o "."

ErrorLine(shader_path, rc) ==
    "Error compiling " \o shader_path \o ": "
        \o CalledProcessErrorStr(command(shader_path), rc)

NotFoundLine(path) == "File not found: " \o path

(* ---------------------------------------------------------------- *)
(* Initial state                                                    *)
(* ---------------------------------------------------------------- *)

\* Every argument list up to MaxArgs paths; of the files on disk only
\* those an argument names are ever looked at.
ArgLists == UNION { [1..n -> Paths] : n \in 0..MaxArgs }

Init ==
    /\ argv \in ArgLists
    /\ fs \in SUBSET { argv[k] : k \in DOMAIN argv }
    /\ pc = "start"
    /\ shader = 0
    /\ stdout = <<>>
    /\ checks = <<>>
    /\ spawns = <<>>
    /\ exitCode = "none"

(* ---------------------------------------------------------------- *)
(* __main__                                                         *)
(* ---------------------------------------------------------------- *)

\* The usage message is printed but the script goes on with exit status 0.
Main_Usage_NoExit ==
    /\ pc = "start"
    /\ Len(argv) < 1
    /\ stdout' = Append(stdout, UsageLine)
    /\ pc' = "loop"
    /\ shader' = 1
    /\ UNCHANGED <<argv, fs, checks, spawns, exitCode>>

\* len(sys.argv) < 2: print the usage message and sys.exit(1).
Main_Usage ==
    /\ pc = "start"
    /\ Len(argv) < 1
    /\ stdout' = Append(stdout, UsageLine)
    /\ pc' = "exited"
    /\ exitCode' = 1
    /\ UNCHANGED <<argv, fs, shader, checks, spawns>>

\* Otherwise the for loop starts at the first argument.
Main_Start ==
    /\ pc = "start"
    /\ ~(Len(argv) < 1)
    /\ pc' = "loop"
    /\ shader' = 1
    /\ UNCHANGED <<argv, fs, stdout, checks, spawns, exitCode>>

\* os.path.isfile
isfile(path) == path \in fs

\* The else branch is lost: the notice is printed and the path compiled.
Loop_Missing_ThenCompile ==
    /\ pc = "loop"
    /\ shader <= Len(argv)
    /\ ~isfile(argv[shader])
    /\ checks' = Append(checks, [pos |-> shader, path |-> argv[shader],
                                 result |-> FALSE])
    /\ stdout' = Append(stdout, NotFoundLine(argv[shader]))
    /\ pc' = "compile"
    /\ UNCHANGED <<argv, fs, shader, spawns, exitCode>>

\* The script waits for the missing file instead of skipping it.
Loop_Missing_Wait ==
    /\ pc = "loop"
    /\ shader <= Len(argv)
    /\ ~isfile(argv[shader])
    /\ UNCHANGED vars

\* One iteration whose path is not a regular file: print the notice and
\* go on with the next argument.
Loop_Missing ==
    /\ pc = "loop"
    /\ shader <= Len(argv)
    /\ ~isfile(argv[shader])
    /\ checks' = Append(checks, [pos |-> shader, path |-> argv[shader],
                                 result |-> FALSE])
    /\ stdout' = Append(stdout, NotFoundLine(argv[shader]))
    /\ shader' = shader + 1
    /\ UNCHANGED <<argv, fs, pc, spawns, exitCode>>

\* One iteration whose path is a regular file: compile_shader is called.
Loop_Exists ==
    /\ pc = "loop"
    /\ shader <= Len(argv)
    /\ isfile(argv[shader])
    /\ checks' = Append(checks, [pos |-> shader, path |-> argv[shader],
                                 result |-> TRUE])
    /\ pc' = "compile"
    /\ UNCHANGED <<argv, fs, shader, stdout, spawns, exitCode>>

\* The loop is exhausted: the script ends, exit status 0.
Loop_End ==
    /\ pc = "loop"
    /\ shader > Len(argv)
    /\ pc' = "exited"
    /\ exitCode' = 0
    /\ UNCHANGED <<argv, fs, shader, stdout, checks, spawns>>

(* ---------------------------------------------------------------- *)
(* compile_shader                                                   *)
(* ---------------------------------------------------------------- *)

SetOutcome(o) ==
    [spawns EXCEPT ![Len(spawns)].outcome = o]

\* subprocess.run starts glslc and waits for it.
Spawn_Started ==
    /\ pc = "compile"
    /\ spawns' = Append(spawns, [pos |-> shader,
                                 command |-> command(argv[shader]),
                                 outcome |-> "running"])
    /\ pc' = "running"
    /\ UNCHANGED <<argv, fs, shader, stdout, checks, exitCode>>

\* subprocess.run cannot start glslc (not on PATH, not executable, fork
\* fails): it raises an OSError, which `except CalledProcessError` does
\* not catch.  The exception leaves compile_shader and the loop, and the
\* interpreter ends with a traceback and exit status 1.
Spawn_Failed ==
    /\ pc = "compile"
    /\ spawns' = Append(spawns, [pos |-> shader,
                                 command |-> command(argv[shader]),
                                 outcome |-> "nostart"])
    /\ pc' = "exited"
    /\ exitCode' = 1
    /\ UNCHANGED <<argv, fs, shader, stdout, checks>>

\* glslc returns 0: it has written the output file; the confirmation is
\* printed and compile_shader returns to the loop.
Return_Zero ==
    /\ pc = "running"
    /\ spawns' = SetOutcome("zero")
    /\ fs' = fs \cup {output_path(argv[shader])}
    /\ stdout' = Append(stdout, CompiledLine(argv[shader]))
    /\ shader' = shader + 1
    /\ pc' = "loop"
    /\ UNCHANGED <<argv, checks, exitCode>>

\* A failed compilation is tried again.
Return_NonZero_Retry ==
    /\ pc = "running"
    /\ \E rc \in NonZeroCodes :
           stdout' = Append(stdout, ErrorLine(argv[shader], rc))
    /\ spawns' = SetOutcome("nonzero")
    /\ pc' = IF Len(spawns) < 2 * Len(argv) THEN "compile" ELSE "loop"
    /\ shader' = IF Len(spawns) < 2 * Len(argv) THEN shader ELSE shader + 1
    /\ UNCHANGED <<argv, fs, checks, exitCode>>

\* glslc returns non-zero: check=True raises CalledProcessError, which
\* is caught; the error is printed and compile_shader returns.
Return_NonZero ==
    /\ pc = "running"
    /\ \E rc \in NonZeroCodes :
           stdout' = Append(stdout, ErrorLine(argv[shader], rc))
    /\ spawns' = SetOutcome("nonzero")
    /\ shader' = shader + 1
    /\ pc' = "loop"
    /\ UNCHANGED <<argv, fs, checks, exitCode>>

(* ---------------------------------------------------------------- *)
(* Specifications                                                   *)
(* ---------------------------------------------------------------- *)

\* The steps of the script itself.
Driver ==
    \/ Main_Usage
    \/ Main_Start
    \/ Loop_Missing
    \/ Loop_Exists
    \/ Loop_End
    \/ Spawn_Started
    \/ Spawn_Failed

\* The steps of the external compiler.
CompilerReturns ==
    \/ Return_Zero
    \/ Return_NonZero

Next ==
    \/ Main_Usage
    \/ Main_Start
    \/ Loop_Missing
    \/ Loop_Exists
    \/ Loop_End
    \/ Spawn_Started
    \/ Spawn_Failed
    \/ Return_Zero
    \/ Return_NonZero

Spec == Init /\ [][Next]_vars

\* The script is a sequential program: it always takes its next step.
\* Nothing is assumed about the compiler returning.
LiveSpec == Spec /\ WF_vars(Driver)


(* ---------------------------------------------------------------- *)
(* Vocabulary of the properties                                     *)
(* ---------------------------------------------------------------- *)

Exited == pc = "exited"

StartsWith(line, prefix) ==
    /\ Len(line) >= Len(prefix)
    /\ SubSeq(line, 1, Len(prefix)) = prefix

HasShaders(path) ==
    \E k \in 1..Len(path) : StartsWith(SubSeq(path, k, Len(path)), "shaders")

\* The path with its leftmost 'shaders' turned into 'bin'.
FirstReplaced(path) ==
    LET k == CHOOSE n \in 1..Len(path) :
                 /\ StartsWith(SubSeq(path, n, Len(path)), "shaders")
                 /\ \A m \in 1..(n - 1) :
                        ~StartsWith(SubSeq(path, m, Len(path)), "shaders")
    IN  SubSeq(path, 1, k - 1) \o "bin" \o SubSeq(path, k + 7, Len(path))

RECURSIVE EveryReplaced(_)
\* The path with the leftmost 'shaders' turned into 'bin' again and again
\* until none is left.
EveryReplaced(path) ==
    IF HasShaders(path) THEN EveryReplaced(FirstReplaced(path)) ELSE path

IsNotFoundLine(line) == StartsWith(line, "File not found: ")
IsCompiledLine(line) == StartsWith(line, "Compiled ")
IsErrorLine(line) == StartsWith(line, "Error compiling ")
IsCompileNotice(line) == IsCompiledLine(line) \/ IsErrorLine(line)

IsFailedCheck(c) == ~c.result
IsFinishedSpawn(sp) == sp.outcome # "running"

\* Position p has been left behind by the loop.
Passed(p) == p < shader \/ (p = shader /\ pc \in {"running", "exited"})

(* ---------------------------------------------------------------- *)
(* C1                                                               *)
(* ---------------------------------------------------------------- *)

\* C1 as stated: for every compiler invocation whose input path contains
\* 'shaders', the output path is the input path with only the first
\* occurrence of 'shaders' replaced by 'bin', followed by '.spv'.
C1_FirstOccurrenceOnly ==
    \A k \in DOMAIN spawns :
        HasShaders(spawns[k].command[2]) =>
            spawns[k].command[4] = FirstReplaced(spawns[k].command[2]) \o ".spv"

\* C1 as amended: for every compiler invocation whose input path contains
\* 'shaders', the output path is the input path with every occurrence of
\* 'shaders' (the first, and then each later one) replaced by 'bin',
\* followed by '.spv'; no 'shaders' is left in it.
C1_EveryOccurrenceReplaced ==
    \A k \in DOMAIN spawns :
        HasShaders(spawns[k].command[2]) =>
            /\ spawns[k].command[4] = EveryReplaced(spawns[k].command[2]) \o ".spv"
            /\ ~HasShaders(spawns[k].command[4])

\* A path with two occurrences of 'shaders' has been handed to the compiler.
C1_Witness ==
    \E k \in DOMAIN spawns :
        /\ spawns[k].command[2] = "shaders/shaders/b"
        /\ spawns[k].command[4] = "bin/bin/b.spv"

(* ---------------------------------------------------------------- *)
(* C2                                                               *)
(* ---------------------------------------------------------------- *)

\* Position p failed: its path is missing, its compiler exited non-zero,
\* or its compiler could not be started.
FailedAt(p) ==
    \/ \E k \in DOMAIN checks : checks[k].pos = p /\ ~checks[k].result
    \/ \E k \in DOMAIN spawns :
           spawns[k].pos = p /\ spawns[k].outcome \in {"nonzero", "nostart"}

\* C2 as stated: a failure of one item never aborts the run: when the run
\* is over, every path after a failed one has been existence-checked, and
\* handed to the compiler if it exists.
C2_FailureNeverAborts ==
    (Exited /\ Len(argv) > 0) =>
        \A p \in 1..Len(argv) : FailedAt(p) =>
            \A q \in (p + 1)..Len(argv) :
                \E k \in DOMAIN checks :
                    /\ checks[k].pos = q
                    /\ checks[k].result =>
                           \E n \in DOMAIN spawns : spawns[n].pos = q

(* ---------------------------------------------------------------- *)
(* C3                                                               *)
(* ---------------------------------------------------------------- *)

\* C3 as stated: with at least one path argument the exit status is 0,
\* whatever happened to the items.
C3_ExitZeroWithArguments ==
    (Exited /\ Len(argv) > 0) => exitCode = 0

(* ---------------------------------------------------------------- *)
(* C4                                                               *)
(* ---------------------------------------------------------------- *)

\* C4: with an empty argument list the only step of the run prints the
\* usage message and ends with exit status 1; no existence check is made
\* and the compiler is never invoked.
C4_EmptyArgumentsUsage ==
    Len(argv) = 0 =>
        /\ checks = <<>>
        /\ spawns = <<>>
        /\ pc \in {"start", "exited"}
        /\ Exited => (exitCode = 1 /\ stdout = <<UsageLine>>)

\* A run without arguments has ended.
C4_Witness ==
    Len(argv) = 0 /\ Exited /\ exitCode = 1

(* ---------------------------------------------------------------- *)
(* C5                                                               *)
(* ---------------------------------------------------------------- *)

C6_OneSpawnPerExistingPath ==
    /\ Cardinality({n \in DOMAIN spawns : spawns[n].outcome = "running"}) <= 1
    /\ \A n \in DOMAIN spawns : spawns[n].outcome = "running" =>
           /\ n = Len(spawns)
           /\ \A k \in DOMAIN checks : checks[k].pos <= spawns[n].pos
    /\ \A n, m \in DOMAIN spawns : n < m => spawns[n].pos < spawns[m].pos
    /\ (Exited /\ exitCode = 0 /\ Len(argv) > 0) =>
           \A k \in DOMAIN checks :
               LET mine == {n \in DOMAIN spawns : spawns[n].pos = checks[k].pos}
               IN  /\ Cardinality(mine) = IF checks[k].result THEN 1 ELSE 0
                   /\ \A n \in mine :
                          /\ spawns[n].command[2] = argv[checks[k].pos]
                          /\ spawns[n].outcome \in {"zero", "nonzero"}

\* A path listed twice was compiled twice, the first time failing.
C6_Witness ==
    /\ Exited /\ exitCode = 0
    /\ Len(argv) = 2 /\ argv[1] = argv[2]
    /\ Len(spawns) = 2
    /\ spawns[1].outcome = "nonzero"
    /\ spawns[2].outcome = "zero"

(* ---------------------------------------------------------------- *)
(* C7                                                               *)
(* ---------------------------------------------------------------- *)

\* C7 as stated: the existence checks are made one per path in input
\* order, and when the run is over every path of a non-empty argument
\* list has had its check, whatever happened to the earlier paths.
C7_OneCheckPerPath ==
    /\ \A k \in DOMAIN checks :
           checks[k].pos = k /\ checks[k].path = argv[k]
    /\ (Exited /\ Len(argv) > 0) => Len(checks) = Len(argv)

(* ---------------------------------------------------------------- *)
(* C8                                                               *)
(* ---------------------------------------------------------------- *)

\* C8: every invocation for a path without 'shaders' has the command
\* [glslc, path, -o, path + '.spv'], and every such path that exists is
\* handed to the compiler once the loop has passed it.
C8_NoShadersStillCompiled ==
    /\ \A n \in DOMAIN spawns :
           LET path == argv[spawns[n].pos]
           IN  ~HasShaders(path) =>
                   spawns[n].command = <<"glslc", path, "-o", path \o ".spv">>
    /\ \A k \in DOMAIN checks :
           (checks[k].result /\ ~HasShaders(checks[k].path)
                /\ Passed(checks[k].pos)) =>
               \E n \in DOMAIN spawns :
                   /\ spawns[n].pos = checks[k].pos
                   /\ spawns[n].command[2] = checks[k].path

\* A path without 'shaders' has been compiled.
C8_Witness ==
    \E n \in DOMAIN spawns :
        /\ spawns[n].command = <<"glslc", "a.frag", "-o", "a.frag.spv">>
        /\ spawns[n].outcome = "zero"
        /\ "Compiled a.frag to a.frag.spv" = stdout[Len(stdout)]

(* ---------------------------------------------------------------- *)
(* C9                                                               *)
(* ---------------------------------------------------------------- *)

\* C9 as stated: every compiler invocation that is over has printed
\* exactly one notice: 'Compiled <path> to <output_path>' if and only if
\* it exited with status zero, and a line beginning 'Error compiling
\* <path>' when it failed (non-zero exit, or could not be started).
C9_OneNoticePerInvocation ==
    LET over    == SelectSeq(spawns, IsFinishedSpawn)
        notices == SelectSeq(stdout, IsCompileNotice)
    IN  /\ Len(notices) = Len(over)
        /\ \A k \in DOMAIN over :
               k \in DOMAIN notices =>
                   LET path == over[k].command[2]
                       out  == over[k].command[4]
                   IN  /\ (notices[k] = "Compiled " \o path \o " to " \o out)
                              <=> (over[k].outcome = "zero")
                       /\ over[k].outcome # "zero" =>
                              StartsWith(notices[k], "Error compiling " \o path)

(* ---------------------------------------------------------------- *)
(* C10                                                              *)
(* ---------------------------------------------------------------- *)

\* C10: if every compiler invocation returns, every run ends; and a run
\* that does not end is, from some point on, waiting for a compiler
\* invocation to return.
C10_TerminatesUnlessCompilerHangs ==
    /\ WF_vars(CompilerReturns) => <>Exited
    /\ <>[](Exited \/ pc = "running")

\* A run that had to wait for the compiler has ended.
C10_Witness ==
    /\ Exited
    /\ Len(argv) = MaxArgs
    /\ Len(spawns) = Len(argv)
    /\ \A n \in DOMAIN spawns : spawns[n].outcome \in {"zero", "nonzero"}

=============================================================================
